---- MODULE Spec2Model ----
(***************************************************************************)
(* A model of openai_helper: HistoryManager (the token-budgeted message    *)
(* history with its fifo compaction) and ChatSession.start (the terminal   *)
(* loop that sends the history, confirms and runs requested functions and  *)
(* folds their output back into the history).                              *)
(*                                                                         *)
(* A text is modelled by its token sequence, so count_token is Len.  A     *)
(* message is a Python dict: a record whose DOMAIN is the dict's key set.  *)
(* An Optional[list] attribute is None (the empty tuple) or <<list>>.      *)
(*                                                                         *)
(* Spec drives a HistoryManager through its public methods add and         *)
(* compact; SessionSpec runs ChatSession.start on a fresh manager.  The    *)
(* variables seed, added, calls, last, request, sent, invoked, tool_msg,   *)
(* prompted, turns and step record what the calls did, built how the       *)
(* constructor returned and caller who drives the manager; the code reads  *)
(* none of them.  Printing is not modelled; EOFError and KeyboardInterrupt *)
(* are raised at the two input() calls.                                    *)
(***************************************************************************)
EXTENDS Integers, Sequences, FiniteSets, TLC

\* ------------------------------------------------------------- bounds
MaxAdds == 3
MaxKeep == 1
MaxThreshold == 3
MaxTokens == MaxThreshold + 1
MaxTurns == 2
MaxTools == 2

VARIABLES
    token_threshold,    \* HistoryManager.token_threshold
    max_tokens,         \* HistoryManager.max_tokens
    compacting_method,  \* HistoryManager.compacting_method
    keep_top,           \* HistoryManager.keep_top
    keep_bottom,        \* HistoryManager.keep_bottom
    verbose,            \* HistoryManager.verbose
    built,              \* how the constructor returned
    caller,             \* who calls add(): any caller, or a scripted one
    messages,           \* HistoryManager.messages: None or <<list>>
    all_messages,       \* HistoryManager.all_messages: None or <<list>>
    shared,             \* messages and all_messages are the same list object
    seed,               \* the messages argument of the constructor
    added,              \* the messages whose add() returned normally, in order
    calls,              \* number of add() calls that got past validation
    last,               \* the last HistoryManager call and what it saw
    no_confirm,         \* ChatSession.start: the no_confirm argument
    pc,                 \* ChatSession.start: where the loop stands
    site,               \* which send_messages call is in flight
    response,           \* ChatSession.start: the local response
    function_call,      \* ChatSession.start: the local function_call
    confirmation,       \* ChatSession.start: the local confirmation
    error,              \* the exception that left start(), "" when none
    request,            \* the messages of the last request sent
    sent,               \* number of requests handed to the transport
    invoked,            \* the registered callables called so far, in order
    tool_msg,           \* the last dict handle_function returned
    prompted,           \* a confirmation prompt was shown in this session
    turns,              \* number of user inputs taken as messages
    step                \* the last step of the loop and what it saw

hm_vars == <<token_threshold, max_tokens, compacting_method, keep_top,
             keep_bottom, verbose, built, caller, messages, all_messages,
             shared, seed, added, calls, last>>

cfg_vars == <<token_threshold, max_tokens, compacting_method, keep_top,
              keep_bottom, verbose, built, caller, seed, no_confirm>>

session_vars == <<no_confirm, pc, site, response, function_call,
                  confirmation, error,
                  request, sent, invoked, tool_msg, prompted, turns, step>>

vars == <<hm_vars, session_vars>>

\* ------------------------------------------------------------- Python values
None == << >>
Some(l) == << l >>

Min(a, b) == IF a < b THEN a ELSE b
Max(a, b) == IF a > b THEN a ELSE b

\* l[i:] for a Python list, i possibly negative
SliceFrom(l, i) ==
    LET n == Len(l)
        s == IF i < 0 THEN Max(n + i, 0) ELSE Min(i, n)
    IN  SubSeq(l, s + 1, n)

\* l[:j] for a Python list, j possibly negative
SliceTo(l, j) ==
    LET n == Len(l)
        e == IF j < 0 THEN Max(n + j, 0) ELSE Min(j, n)
    IN  SubSeq(l, 1, e)

\* l.pop(i) for 0 <= i < len(l): the list that is left
Pop(l, i) == SubSeq(l, 1, i) \o SubSeq(l, i + 2, Len(l))

\* m in l, by value
InList(m, l) == \E i \in 1..Len(l) : l[i] = m

\* ------------------------------------------------------------- messages
Roles == {"system", "user", "assistant", "function"}

Text(n, tok) == [i \in 1..n |-> tok]

SystemMsg == [role |-> "system", content |-> <<"s">>]
UserA == [role |-> "user", content |-> <<"a">>]
FunctionNoName == [role |-> "function", content |-> <<"a">>]
AssistantNamed == [role |-> "assistant", name |-> "f",
                   content |-> <<"c", "c", "c">>]
Narrator == [role |-> "narrator", content |-> <<"a">>]
NoRole == [content |-> <<"a">>]
NoContent == [role |-> "user"]
Oversized == [role |-> "user", content |-> Text(MaxTokens + 1, "x")]

\* the arguments add() is called with
AddInputs == {UserA, FunctionNoName, AssistantNamed,
              Narrator, NoRole, NoContent, Oversized}

\* the messages arguments the constructor is called with
Seeds == {None, Some(<<SystemMsg>>),
          Some(<<SystemMsg, UserA, FunctionNoName>>)}

count_token(text) == Len(text)

RECURSIVE SumTokens(_)
SumTokens(l) ==
    IF l = << >> THEN 0
    ELSE count_token(l[1].content) + SumTokens(Tail(l))

\* get_total_tokens on a window that is a list
get_total_tokens(l) == SumTokens(l)

\* ------------------------------------------------------------- compact
\* self.messages[: self.keep_top]
TopMsgs(l) == SliceTo(l, keep_top)

\* a slice that keeps one message more than keep_bottom
BottomMsgsOneMore(l) == SliceFrom(l, 0 - keep_bottom - 1)

\* self.messages[-self.keep_bottom :]
BottomMsgs(l) == SliceFrom(l, 0 - keep_bottom)

\* a concatenation that keeps a bottom message equal to a top message
CollapseKeepsBoth(l) == TopMsgs(l) \o BottomMsgs(l)

\* a concatenation that puts the bottom messages first
CollapseBottomFirst(l) ==
    SelectSeq(BottomMsgs(l), LAMBDA m : ~InList(m, TopMsgs(l))) \o TopMsgs(l)

\* top_msgs + [msg for msg in bottom_msgs if msg not in top_msgs]
Collapse(l) ==
    TopMsgs(l) \o SelectSeq(BottomMsgs(l), LAMBDA m : ~InList(m, TopMsgs(l)))

\* a loop that pops the head of the list instead of position keep_top
RECURSIVE PopLoopFront(_)
PopLoopFront(l) ==
    IF get_total_tokens(l) > token_threshold /\ Len(l) > keep_top
    THEN PopLoopFront(Pop(l, 0))
    ELSE l

\* the while loop of the over-budget branch: pop(keep_top) while over budget
RECURSIVE PopLoop(_)
PopLoop(l) ==
    IF get_total_tokens(l) > token_threshold /\ Len(l) > keep_top
    THEN PopLoop(Pop(l, keep_top))
    ELSE l

\* compact() on the manager state s = [messages, all_messages, shared]:
\* the state it leaves and how it returned
compact(s) ==
    IF verbose /\ s.messages = None
    THEN s @@ [result |-> "TypeError"]
    ELSE IF compacting_method = "fifo"
    THEN IF s.messages = None
         THEN s @@ [result |-> "TypeError"]
         ELSE LET l == s.messages[1] IN
              IF get_total_tokens(l) <= token_threshold
              THEN IF Len(l) > keep_top + keep_bottom
                   THEN [messages |-> Some(Collapse(l)),
                         all_messages |-> s.all_messages,
                         shared |-> FALSE,
                         result |-> "ok"]
                   ELSE s @@ [result |-> "ok"]
              ELSE LET p == PopLoop(l)
                       popped == [messages |-> Some(p),
                                  all_messages |-> IF s.shared THEN Some(p)
                                                   ELSE s.all_messages,
                                  shared |-> s.shared]
                   IN  IF get_total_tokens(p) > token_threshold
                       THEN [messages |-> Some(SliceTo(p, keep_top)),
                             all_messages |-> popped.all_messages,
                             shared |-> FALSE,
                             result |-> "ok"]
                       ELSE popped @@ [result |-> "ok"]
    ELSE IF compacting_method = "summarize"
    THEN s @@ [result |-> "NotImplementedError"]
    ELSE s @@ [result |-> "ValueError"]

\* ------------------------------------------------------------- add
\* assertions whose size check is strict
ValidatesStrict(m) ==
    /\ "role" \in DOMAIN m
    /\ "content" \in DOMAIN m
    /\ m.role \in Roles
    /\ count_token(m.content) < max_tokens

\* the four assertions of add()
Validates(m) ==
    /\ "role" \in DOMAIN m
    /\ "content" \in DOMAIN m
    /\ m.role \in Roles
    /\ count_token(m.content) <= max_tokens

\* the two appends of add(), after None has been replaced by fresh lists
Appended(s, m) ==
    LET ms == IF s.messages = None THEN << >> ELSE s.messages[1]
        am == IF s.all_messages = None THEN << >> ELSE s.all_messages[1]
    IN  IF s.shared
        THEN [messages |-> Some(ms \o <<m, m>>),
              all_messages |-> Some(ms \o <<m, m>>),
              shared |-> TRUE]
        ELSE [messages |-> Some(Append(ms, m)),
              all_messages |-> Some(Append(am, m)),
              shared |-> FALSE]

\* add(message) on the manager state s
add(s, m) ==
    IF ~Validates(m)
    THEN s @@ [result |-> "AssertionError"]
    ELSE compact(Appended(s, m))

\* ------------------------------------------------------------- state machine
HM == [messages |-> messages, all_messages |-> all_messages, shared |-> shared]

Items(opt) == IF opt = None THEN << >> ELSE opt[1]

Window == Items(messages)
Archive == Items(all_messages)

\* assertions whose threshold check is strict
InitAssertsStrict(tt, mt, cm, kt, kb) ==
    /\ cm \in {"fifo", "summarize"}
    /\ kt >= 0
    /\ kb >= 0
    /\ tt >= 0
    /\ tt < mt

\* the five assertions of the constructor
InitAsserts(tt, mt, cm, kt, kb) ==
    /\ cm \in {"fifo", "summarize"}
    /\ kt >= 0
    /\ kb >= 0
    /\ tt >= 0
    /\ tt <= mt

\* HistoryManager(token_threshold, max_tokens, compacting_method, keep_top,
\* keep_bottom, messages, verbose): the attributes it assigns once the
\* assertions have passed; when one fails the variables hold the arguments
Construct(tt, mt, cm, kt, kb, sd, vb) ==
    /\ token_threshold = tt
    /\ max_tokens = mt
    /\ compacting_method = cm
    /\ keep_top = kt
    /\ keep_bottom = kb
    /\ verbose = vb
    /\ built = IF InitAsserts(tt, mt, cm, kt, kb) THEN "ok"
               ELSE "AssertionError"
    /\ seed = sd
    /\ messages = sd
    /\ all_messages = sd
    /\ shared = (sd # None)
    /\ added = << >>
    /\ calls = 0
    /\ last = [op |-> "init", msg |-> NoRole, result |-> "ok",
               before |-> Items(sd), appended |-> Items(sd),
               archive |-> Items(sd), repeated |-> FALSE]

NoStep == [name |-> "none", input |-> << >>, outcome |-> "",
           window |-> << >>, archive |-> << >>, sent |-> 0, invoked |-> 0,
           prompted |-> FALSE]

\* no ChatSession is running
NoSession ==
    /\ no_confirm = FALSE
    /\ pc = "Idle"
    /\ site = "none"
    /\ response = None
    /\ function_call = None
    /\ confirmation = None
    /\ error = ""
    /\ request = None
    /\ sent = 0
    /\ invoked = << >>
    /\ tool_msg = None
    /\ prompted = FALSE
    /\ turns = 0
    /\ step = NoStep

\* the compacting_method arguments the constructor is called with
Methods == {"fifo", "summarize", "lifo"}

\* scenario A: ten distinct one-token messages under a budget they all fit
ScenarioA ==
    [token_threshold |-> 100, max_tokens |-> 200, keep_top |-> 1,
     keep_bottom |-> 2,
     script |-> [i \in 1..10 |->
                   [role |-> "user",
                    content |-> << <<"a1", "a2", "a3", "a4", "a5", "a6",
                                     "a7", "a8", "a9", "a10">>[i] >>]]]

\* scenario B: four three-token messages under a budget of five tokens
ScenarioB ==
    [token_threshold |-> 5, max_tokens |-> 4000, keep_top |-> 1,
     keep_bottom |-> 6,
     script |-> [i \in 1..4 |->
                   [role |-> "user",
                    content |-> Text(3, <<"b1", "b2", "b3", "b4">>[i])]]]

Scenario(c) == IF c = "A" THEN ScenarioA ELSE ScenarioB

\* the constructor called with any arguments, failing ones included, or
\* with the arguments of a scenario
Init ==
    /\ \/ /\ caller = "free"
          /\ \E tt \in (0 - 1)..MaxThreshold, kt \in (0 - 1)..MaxKeep,
                kb \in (0 - 1)..MaxKeep, cm \in Methods, sd \in Seeds,
                vb \in BOOLEAN :
                \E mt \in {tt - 1, tt, MaxTokens} :
                    Construct(tt, mt, cm, kt, kb, sd, vb)
       \/ /\ caller \in {"A", "B"}
          /\ Construct(Scenario(caller).token_threshold,
                       Scenario(caller).max_tokens, "fifo",
                       Scenario(caller).keep_top,
                       Scenario(caller).keep_bottom, None, FALSE)
    /\ NoSession

\* history_manager.add(m), as called by any caller
DoAdd(m) ==
    LET r == add(HM, m) IN
    /\ messages' = r.messages
    /\ all_messages' = r.all_messages
    /\ shared' = r.shared
    /\ added' = IF r.result = "ok" THEN Append(added, m) ELSE added
    /\ calls' = IF Validates(m) THEN calls + 1 ELSE calls
    /\ last' = [op |-> "add", msg |-> m, result |-> r.result,
                before |-> Window,
                appended |-> IF Validates(m)
                             THEN Items(Appended(HM, m).messages)
                             ELSE Window,
                archive |-> Archive, repeated |-> FALSE]

\* a caller calls add(m)
Add ==
    /\ pc = "Idle"
    /\ built = "ok"
    /\ caller = "free"
    /\ calls < MaxAdds
    /\ \E m \in AddInputs : DoAdd(m)
    /\ UNCHANGED cfg_vars
    /\ UNCHANGED <<pc, site, response, function_call, confirmation, error,
                   request, sent, invoked, tool_msg, prompted, turns, step>>

\* the caller of a scenario calls add() with the next message of its script
ScriptedAdd ==
    /\ pc = "Idle"
    /\ built = "ok"
    /\ caller \in {"A", "B"}
    /\ calls < Len(Scenario(caller).script)
    /\ DoAdd(Scenario(caller).script[calls + 1])
    /\ UNCHANGED cfg_vars
    /\ UNCHANGED <<pc, site, response, function_call, confirmation, error,
                   request, sent, invoked, tool_msg, prompted, turns, step>>

\* a caller calls compact()
Compact ==
    /\ pc = "Idle"
    /\ built = "ok"
    /\ LET r == compact(HM) IN
        /\ messages' = r.messages
        /\ all_messages' = r.all_messages
        /\ shared' = r.shared
        /\ last' = [op |-> "compact", msg |-> NoRole, result |-> r.result,
                    before |-> Window, appended |-> Window,
                    archive |-> Archive,
                    repeated |-> (last.op = "compact")]
    /\ UNCHANGED cfg_vars
    /\ UNCHANGED <<added, calls>>
    /\ UNCHANGED <<pc, site, response, function_call, confirmation, error,
                   request, sent, invoked, tool_msg, prompted, turns, step>>

Next == Add \/ ScriptedAdd \/ Compact

Spec == Init /\ [][Next]_vars

\* ------------------------------------------------------------- ChatSession
\* str.lower() on what is typed at the prompts, token by token
LowerTok(t) ==
    CASE t = "EXIT" -> "exit"
      [] t = "Exit" -> "exit"
      [] t = "Y" -> "y"
      [] t = "N" -> "n"
      [] OTHER -> t

\* a comparison of the line as typed
lowerVerbatim(text) == text

lower(text) == [i \in 1..Len(text) |-> LowerTok(text[i])]

\* what the user types at the "User:" prompt
UserTexts == {<<"exit">>, <<"EXIT">>, <<"Exit">>, <<"hi">>,
              Text(2 * MaxThreshold + 2, "x")}

\* what the user types at the "Confirm function call? [Y/n]:" prompt
Answers == {<<"y">>, <<"Y">>, << >>, <<"n">>, <<"N">>, <<"maybe">>}

\* exceptions input() raises
InputFailures == {"EOFError", "KeyboardInterrupt"}

\* the arguments strings of the function calls the remote service sends
ArgsX == <<"{\"x\": 1}">>
ArgsY == <<"{\"y\": 2}">>
ArgsBad == <<"{oops">>

WellFormed(text) == text \in {ArgsX, ArgsY}

\* json.loads(text) rendered by the f-string: the repr of the parsed dict
json_loads(text) ==
    CASE text = ArgsX -> <<"{'x': 1}">>
      [] text = ArgsY -> <<"{'y': 2}">>
      [] OTHER -> << >>

\* the names registered in the FunctionCallManager
Registered == {"f", "g"}

\* what a registered callable does when called
Behaviours == {"returns", "raises", "unrenderable"}

\* the function calls the remote service asks for
FunctionCalls == {[name |-> "f", arguments |-> ArgsX],
                  [name |-> "g", arguments |-> ArgsY],
                  [name |-> "h", arguments |-> ArgsX],
                  [name |-> "f", arguments |-> ArgsBad]}

\* response.choices[0] of the replies the transport returns
Replies ==
    {[finish_reason |-> "stop", function_call |-> None]}
    \cup {[finish_reason |-> "function_call", function_call |-> Some(fc)] :
            fc \in FunctionCalls}

\* what client.chat.completions.create does: a reply, or RateLimitError
TransportOutcomes == {"reply", "RateLimitError"}

\* a rendering that leaves the input arguments out
ToolContentOutputOnly(args, output) == <<"Function output:">> \o output

\* the f-string of handle_function: the input arguments and the output
ToolContent(args, output) ==
    <<"Function input:">> \o args \o <<"Function output:">> \o output

\* a decision that runs the function on "n" as well
AfterConfirmationAnyAnswer(c) ==
    IF c \in {Some(<<"y">>), Some(<<"n">>), Some(<< >>)} THEN "ExecutingTool"
    ELSE "ConfirmingTool"

\* lines 283-305: where the loop goes with the local confirmation c: on to
\* handle_function, back to the user prompt, or to the confirmation prompt
AfterConfirmation(c) ==
    IF c \in {Some(<<"y">>), Some(<< >>)} THEN "ExecutingTool"
    ELSE IF c = Some(<<"n">>) THEN "AwaitingInput"
    ELSE "ConfirmingTool"

\* OpenAIFunctionCall.call(function_name, **kwargs) when the callable
\* behaves as b
call(function_name, b) ==
    IF function_name \notin Registered
    THEN [result |-> "ValueError", called |-> FALSE, output |-> << >>]
    ELSE IF b = "returns"
    THEN [result |-> "ok", called |-> TRUE, output |-> <<"42">>]
    ELSE IF b = "raises"
    THEN [result |-> "Exception", called |-> TRUE, output |-> << >>]
    ELSE [result |-> "TypeError", called |-> TRUE, output |-> << >>]

\* a handler that returns the result as an assistant message
handle_functionAsAssistant(fc, b) ==
    IF ~WellFormed(fc.arguments)
    THEN [result |-> "JSONDecodeError", called |-> FALSE, msg |-> None]
    ELSE LET out == call(fc.name, b) IN
         IF out.result # "ok"
         THEN [result |-> out.result, called |-> out.called, msg |-> None]
         ELSE [result |-> "ok", called |-> TRUE,
               msg |-> Some([role |-> "assistant",
                             name |-> fc.name,
                             content |-> ToolContent(
                                 json_loads(fc.arguments), out.output)])]

\* ChatSession.handle_function(function_call) when the callable behaves as b
handle_function(fc, b) ==
    IF ~WellFormed(fc.arguments)
    THEN [result |-> "JSONDecodeError", called |-> FALSE, msg |-> None]
    ELSE LET out == call(fc.name, b) IN
         IF out.result # "ok"
         THEN [result |-> out.result, called |-> out.called, msg |-> None]
         ELSE [result |-> "ok", called |-> TRUE,
               msg |-> Some([role |-> "function",
                             name |-> fc.name,
                             content |-> ToolContent(
                                 json_loads(fc.arguments), out.output)])]

\* the record of a step of the loop: what it read and the state it started in
StepOf(name, input, outcome) ==
    [name |-> name, input |-> input, outcome |-> outcome,
     window |-> Window, archive |-> Archive, sent |-> sent,
     invoked |-> Len(invoked), prompted |-> prompted]

hm_state == <<messages, all_messages, shared, added, calls, last>>

\* chat.start(history_manager, no_confirm) on a fresh manager; the sessions
\* use budgets that a function result (4 tokens and more) can fit in
SessionInit ==
    /\ \E tt \in {MaxThreshold, 2 * MaxThreshold},
          kt \in 0..MaxKeep, kb \in 0..MaxKeep,
          cm \in {"fifo", "summarize"},
          sd \in {None, Some(<<SystemMsg>>)} :
          Construct(tt, 2 * MaxThreshold + 1, cm, kt, kb, sd, FALSE)
    /\ caller = "session"
    /\ no_confirm \in BOOLEAN
    /\ pc = "AwaitingInput"
    /\ site = "none"
    /\ response = None
    /\ function_call = None
    /\ confirmation = None
    /\ error = ""
    /\ request = None
    /\ sent = 0
    /\ invoked = << >>
    /\ tool_msg = None
    /\ prompted = FALSE
    /\ turns = 0
    /\ step = NoStep

\* lines 259-265: the user types a line; exit ends the loop, any other
\* line is added as a user message
UserInput ==
    /\ pc = "AwaitingInput"
    /\ \E text \in UserTexts :
        IF lower(text) = <<"exit">>
        THEN /\ pc' = "Ended"
             /\ step' = StepOf("UserInput", text, "exit")
             /\ UNCHANGED <<hm_state, site, error, turns>>
        ELSE /\ turns < MaxTurns
             /\ turns' = turns + 1
             /\ DoAdd([role |-> "user", content |-> text])
             /\ LET r == add(HM, [role |-> "user", content |-> text]).result IN
                /\ step' = StepOf("UserInput", text, r)
                /\ IF r = "ok"
                   THEN pc' = "Sending" /\ site' = "first" /\ error' = error
                   ELSE pc' = "Raised" /\ error' = r /\ site' = site
    /\ UNCHANGED cfg_vars
    /\ UNCHANGED <<response, function_call, confirmation, request, sent,
                   invoked, tool_msg, prompted>>

\* lines 307-312: input() raises EOFError or KeyboardInterrupt at the user
\* prompt or at the confirmation prompt; the loop ends
InputEnds ==
    /\ pc \in {"AwaitingInput", "ConfirmingTool"}
    /\ \E sig \in InputFailures :
        step' = StepOf("InputEnds", << >>, sig)
    /\ prompted' = (prompted \/ pc = "ConfirmingTool")
    /\ pc' = "Ended"
    /\ UNCHANGED cfg_vars
    /\ UNCHANGED hm_state
    /\ UNCHANGED <<site, response, function_call, confirmation, error,
                   request, sent, invoked, tool_msg, turns>>

\* lines 266-281 and 293-300 with send_messages (180-207): one call of the
\* transport with history_manager.messages; a reply sets response (and,
\* at line 267 only, function_call), and the while condition of line 275
\* decides where the loop goes
Transport ==
    /\ pc = "Sending"
    /\ request' = messages
    /\ sent' = sent + 1
    /\ \E o \in TransportOutcomes :
        IF o = "RateLimitError"
        THEN /\ pc' = "Raised"
             /\ error' = "RateLimitError"
             /\ step' = StepOf("Transport", << >>, "RateLimitError")
             /\ UNCHANGED <<response, function_call, confirmation>>
        ELSE \E r \in Replies :
             /\ r.finish_reason = "function_call" => Len(invoked) < MaxTools
             /\ response' = Some(r)
             /\ function_call' = IF site = "first" THEN r.function_call
                                 ELSE function_call
             /\ confirmation' = IF r.finish_reason # "function_call"
                                 THEN confirmation
                                 ELSE IF no_confirm THEN Some(<<"y">>)
                                 ELSE None
             /\ pc' = IF r.finish_reason = "function_call"
                      THEN AfterConfirmation(confirmation')
                      ELSE "AwaitingInput"
             /\ error' = error
             /\ step' = StepOf("Transport", << >>, r.finish_reason)
    /\ UNCHANGED cfg_vars
    /\ UNCHANGED hm_state
    /\ UNCHANGED <<site, invoked, tool_msg, prompted, turns>>

\* lines 283-286 and 302-305: the user answers the confirmation prompt
Confirm ==
    /\ pc = "ConfirmingTool"
    /\ \E ans \in Answers :
        /\ confirmation' = Some(lower(ans))
        /\ pc' = AfterConfirmation(confirmation')
        /\ step' = StepOf("Confirm", ans, "answered")
    /\ prompted' = TRUE
    /\ UNCHANGED cfg_vars
    /\ UNCHANGED hm_state
    /\ UNCHANGED <<site, response, function_call, error, request, sent,
                   invoked, tool_msg, turns>>

\* lines 287-290: handle_function(function_call), then add of its result
ExecuteTool ==
    /\ pc = "ExecutingTool"
    /\ \E b \in Behaviours :
        LET h == handle_function(function_call[1], b) IN
        /\ invoked' = IF h.called THEN Append(invoked, function_call[1])
                      ELSE invoked
        /\ IF h.result # "ok"
           THEN /\ pc' = "Raised"
                /\ error' = h.result
                /\ step' = StepOf("ExecuteTool", << >>, h.result)
                /\ UNCHANGED <<hm_state, tool_msg, site>>
           ELSE /\ tool_msg' = h.msg
                /\ DoAdd(h.msg[1])
                /\ LET r == add(HM, h.msg[1]).result IN
                   /\ step' = StepOf("ExecuteTool", << >>, r)
                   /\ IF r = "ok"
                      THEN pc' = "Sending" /\ site' = "followup"
                           /\ error' = error
                      ELSE pc' = "Raised" /\ error' = r /\ site' = site
    /\ UNCHANGED cfg_vars
    /\ UNCHANGED <<response, function_call, confirmation, request, sent,
                   prompted, turns>>

SessionNext == UserInput \/ InputEnds \/ Transport \/ Confirm \/ ExecuteTool

SessionSpec == SessionInit /\ [][SessionNext]_vars

\* ------------------------------------------------------------- properties
\* compact() ran to its end in the last call, on the window last.appended
CompactRan == last.op \in {"add", "compact"} /\ last.result = "ok"

\* C1: with fifo, after a successful add whose window exceeded
\* token_threshold before compaction, the window is within token_threshold
\* or is exactly the first keep_top messages of the window before compaction.
C1_BudgetInvariant ==
    (/\ compacting_method = "fifo"
     /\ last.op = "add"
     /\ last.result = "ok"
     /\ get_total_tokens(last.appended) > token_threshold)
    => \/ get_total_tokens(Window) <= token_threshold
       \/ Window = SliceTo(last.appended, keep_top)

\* an add evicted part of an over-budget window and stopped within budget
C1_Witness ==
    /\ compacting_method = "fifo"
    /\ last.op = "add"
    /\ last.result = "ok"
    /\ get_total_tokens(last.appended) > token_threshold
    /\ get_total_tokens(Window) <= token_threshold
    /\ Len(Window) > keep_top
    /\ Len(Window) < Len(last.appended)

\* C2 as stated: whenever compact() runs on a window within token_threshold,
\* keep_bottom = 0 included, the window afterwards holds at most
\* keep_top + keep_bottom messages.
C2_StructuralBound ==
    (CompactRan /\ get_total_tokens(last.appended) <= token_threshold)
    => Len(Window) <= keep_top + keep_bottom

\* C2 amended: the bound holds for keep_bottom >= 1; with keep_bottom = 0
\* the bottom slice is the whole window, so the window keeps its first
\* keep_top messages and every message not equal to one of them.
C2_StructuralBoundAmended ==
    (CompactRan /\ get_total_tokens(last.appended) <= token_threshold)
    => /\ keep_bottom >= 1 => Len(Window) <= keep_top + keep_bottom
       /\ keep_bottom = 0 =>
            LET top == SubSeq(last.appended, 1,
                              Min(keep_top, Len(last.appended)))
            IN  Window = top \o SelectSeq(last.appended,
                                          LAMBDA m : ~InList(m, top))

\* an under-budget compaction with keep_bottom >= 1 dropped a middle message
C2_Witness ==
    /\ CompactRan
    /\ get_total_tokens(last.appended) <= token_threshold
    /\ keep_bottom >= 1
    /\ Len(last.appended) > keep_top + keep_bottom
    /\ Len(Window) < Len(last.appended)

\* C3: a compact() that directly follows a compact() leaves the window as
\* the first one left it.
C3_Idempotent ==
    (last.op = "compact" /\ last.repeated) => Window = last.before

\* the name key is present on a message that is not a function message, or
\* absent from one that is
NameMismatch(m) ==
    ("name" \in DOMAIN m) # ("role" \in DOMAIN m /\ m.role = "function")

\* C6: add fails for every message whose name field does not match its role
\* (name present iff role is function).
C6_NameValidated ==
    (last.op = "add" /\ NameMismatch(last.msg)) => last.result # "ok"

\* C7: add fails for every message whose role is not one of the four and
\* for every message of more than max_tokens tokens; a message with a
\* permitted role and at most max_tokens tokens passes validation and is
\* appended (add then returns normally under fifo).
C7_RoleAndSizeValidated ==
    last.op = "add" =>
        LET m == last.msg
            role_ok == "role" \in DOMAIN m /\ m.role \in Roles
            sized == "content" \in DOMAIN m
            rejected == /\ last.result = "AssertionError"
                        /\ Window = last.before
                        /\ last.appended = last.before
        IN  /\ ~role_ok => rejected
            /\ (sized /\ count_token(m.content) > max_tokens) => rejected
            /\ (role_ok /\ sized /\ count_token(m.content) <= max_tokens) =>
                 /\ last.result # "AssertionError"
                 /\ compacting_method = "fifo" => last.result = "ok"
                 /\ Len(last.appended) > Len(last.before)
                 /\ last.appended[Len(last.appended)] = m

\* a message of exactly max_tokens tokens was accepted
C7_Witness ==
    /\ last.op = "add"
    /\ last.result = "ok"
    /\ count_token(last.msg.content) = max_tokens

\* C4: a rate limit signalled by the transport is not surfaced: the loop
\* stays in Sending and the request is issued again.
C4_RateLimitRetried ==
    (step.name = "Transport" /\ step.outcome = "RateLimitError")
    => pc = "Sending" /\ error = ""

\* C5: when the registered callable raises or its result cannot be rendered,
\* the loop does not abort: a function-role message is appended to the log
\* and the loop is Sending again.
C5_ToolFailureReported ==
    (step.name = "ExecuteTool" /\ step.outcome \in {"Exception", "TypeError"})
    => /\ pc = "Sending"
       /\ error = ""
       /\ Len(Archive) > Len(step.archive)
       /\ last.op = "add"
       /\ last.msg.role = "function"

\* the last answer that decided a confirmation was affirmative
Affirmed == confirmation \in {Some(<<"y">>), Some(<< >>)}

\* C8: handle_function runs only after an affirmative decision, which in
\* no-confirm mode is taken without any prompt; on answer n nothing is
\* invoked, appended or sent and the loop is back at the user prompt.
C8_ConfirmationGuardsRegistry ==
    /\ (step.name = "ExecuteTool" \/ pc = "ExecutingTool")
         => Affirmed /\ (no_confirm <=> ~prompted)
    /\ no_confirm => ~prompted
    /\ (step.name = "Confirm" /\ lower(step.input) = <<"n">>)
         => /\ pc = "AwaitingInput"
            /\ Len(invoked) = step.invoked
            /\ Window = step.window
            /\ Archive = step.archive
            /\ sent = step.sent

\* a function ran after a confirmation, its follow-up reply asked for a
\* function again and the user answered n
C8_Witness ==
    /\ step.name = "Confirm"
    /\ lower(step.input) = <<"n">>
    /\ Len(invoked) >= 1
    /\ pc = "AwaitingInput"

\* the Tool Result Message of the function just executed: role function,
\* the invoked name, content holding the arguments and the output, appended
\* by add
ToolResultAppended ==
    (step.name = "ExecuteTool" /\ step.outcome = "ok")
    => LET m == tool_msg[1]
           f == invoked[Len(invoked)]
       IN  /\ m.role = "function"
           /\ m.name = f.name
           /\ \E i, j \in 1..Len(m.content) :
                /\ i < j
                /\ <<m.content[i]>> = json_loads(f.arguments)
                /\ m.content[j] = "42"
           /\ last.op = "add"
           /\ last.msg = m
           /\ last.result = "ok"
           /\ last.before = step.window
           /\ Len(last.appended) > Len(last.before)
           /\ last.appended[Len(last.appended)] = m

\* the request just sent is the one that follows a tool execution
FollowUpSent == step.name = "Transport" /\ site = "followup"

\* C9 as stated: the Tool Result Message is appended through add and the
\* next request sent contains it.
C9_ToolResultResent ==
    /\ ToolResultAppended
    /\ FollowUpSent => InList(tool_msg[1], Items(request))

\* the eviction of add leaves the message m in the window it appended to
Fits(m) ==
    LET top == SubSeq(last.appended, 1, Min(keep_top, Len(last.appended)))
    IN  \/ InList(m, top)
        \/ get_total_tokens(top) + count_token(m.content) <= token_threshold

\* C9 amended: the Tool Result Message is appended through add; the next
\* request carries the window as that add compacted it, which contains the
\* message exactly when the first keep_top messages and the message
\* together fit token_threshold (or the message is among those first).
C9_ToolResultResentAmended ==
    /\ ToolResultAppended
    /\ FollowUpSent =>
         /\ request = messages
         /\ InList(tool_msg[1], Items(request)) <=> Fits(tool_msg[1])

\* a follow-up request carried the function result although the add had
\* to evict older messages to fit the budget
C9_Witness ==
    /\ FollowUpSent
    /\ InList(tool_msg[1], Items(request))
    /\ get_total_tokens(last.appended) > token_threshold

\* C10: the archival record is the seed followed by every successfully
\* added message, once each, in insertion order.
C10_ArchiveComplete == Archive = Items(seed) \o added

\* C11: a successful add places exactly one new occurrence of the message at
\* the end of the window before compaction runs: that window is the previous
\* window followed by the message, whether or not the manager was seeded.
C11_AppendedOnce ==
    (last.op = "add" /\ last.result = "ok")
    => last.appended = Append(last.before, last.msg)

\* C12: with the summarize method every call of compact(), direct or from
\* add(), fails with the not-implemented error and leaves the window as it
\* was when compact() was entered; the window is never compacted as fifo.
C12_SummarizeNotImplemented ==
    (/\ compacting_method = "summarize"
     /\ \/ last.op = "compact"
        \/ last.op = "add" /\ Validates(last.msg))
    => /\ last.result = "NotImplementedError"
       /\ Window = last.appended

\* C13: when the function name the remote service asks for in its latest
\* reply is not in the registry, the dispatch leaves start() with an error,
\* no registered callable is invoked, and nothing is appended to the history
\* or sent: the request is neither ignored nor turned into a function
\* message.
C13_UnknownFunctionFails ==
    (/\ step.name = "ExecuteTool"
     /\ response[1].function_call[1].name \notin Registered)
    => /\ pc = "Raised"
       /\ error \in {"ValueError", "JSONDecodeError"}
       /\ Len(invoked) = step.invoked
       /\ Window = step.window
       /\ Archive = step.archive
       /\ sent = step.sent

\* C14: when the user types exit in any letter case the loop ends with no
\* message appended and no request sent for that input; when input() raises
\* EOFError or KeyboardInterrupt, at the user prompt or at the confirmation
\* prompt, the loop ends with no error leaving start(); once ended, the
\* loop takes no further step, so no further input is read.
C14_SessionEnds ==
    /\ (\/ /\ step.name = "UserInput"
            /\ step.input \in {<<"exit">>, <<"EXIT">>, <<"Exit">>}
         \/ step.name = "InputEnds")
       => /\ pc = "Ended"
          /\ error = ""
          /\ Window = step.window
          /\ Archive = step.archive
          /\ sent = step.sent
    /\ pc = "Ended" => ~ENABLED SessionNext

\* input() failed at the confirmation prompt of a turn and the loop ended
C14_Witness ==
    /\ step.name = "InputEnds"
    /\ prompted
    /\ ~step.prompted
    /\ turns > 0
    /\ pc = "Ended"
    /\ error = ""

FirstOf(l, n) == SubSeq(l, 1, n)
LastOf(l, n) == SubSeq(l, Len(l) - n + 1, Len(l))

\* the messages of l that are not equal by value to a message of top
Without(l, top) == SelectSeq(l, LAMBDA m : ~InList(m, top))

\* C16 as stated: when compact() runs on a window within token_threshold
\* (equality included) that holds more than keep_top + keep_bottom messages,
\* the window becomes its first keep_top messages followed by its last
\* keep_bottom messages, a bottom message equal by value to a top message
\* being kept once; a window of at most keep_top + keep_bottom messages is
\* left unchanged.
C16_UnderBudgetCollapse ==
    (CompactRan /\ get_total_tokens(last.appended) <= token_threshold)
    => IF Len(last.appended) > keep_top + keep_bottom
       THEN Window = FirstOf(last.appended, keep_top)
                     \o Without(LastOf(last.appended, keep_bottom),
                                FirstOf(last.appended, keep_top))
       ELSE Window = last.appended

\* C16 amended: as stated for keep_bottom >= 1; with keep_bottom = 0 the
\* bottom slice is the whole window, so the window becomes its first
\* keep_top messages followed by every message not equal to one of them.
\* Scenario A (ten distinct one-token messages, threshold 100, keep_top 1,
\* keep_bottom 2) ends with message 1, message 9, message 10.
C16_UnderBudgetCollapseAmended ==
    /\ (CompactRan /\ get_total_tokens(last.appended) <= token_threshold)
       => IF Len(last.appended) > keep_top + keep_bottom
          THEN Window = FirstOf(last.appended, keep_top)
                        \o Without(IF keep_bottom = 0 THEN last.appended
                                   ELSE LastOf(last.appended, keep_bottom),
                                   FirstOf(last.appended, keep_top))
          ELSE Window = last.appended
    /\ (caller = "A" /\ calls = Len(ScenarioA.script))
       => Window = <<ScenarioA.script[1], ScenarioA.script[9],
                     ScenarioA.script[10]>>

\* scenario A has run to its end: the tenth add collapsed a window of four
C16_Witness ==
    /\ caller = "A"
    /\ calls = Len(ScenarioA.script)
    /\ last.op = "add"
    /\ last.result = "ok"
    /\ Len(last.appended) = 4
    /\ Len(Window) = 3

\* the list l after k removals at position keep_top
Evicted(l, k) ==
    SubSeq(l, 1, Min(keep_top, Len(l)))
    \o SubSeq(l, Min(keep_top, Len(l)) + k + 1, Len(l))

\* C17: when compact() runs on a window over token_threshold it removes
\* messages one at a time at position keep_top and stops at the first point
\* where the total is within token_threshold or only the first keep_top
\* messages remain; those first messages are never removed (with
\* keep_top = 0 the window may become empty).  Scenario B (threshold 5,
\* keep_top 1, four messages of 3 tokens) ends with the first message alone
\* and a token sum of 3.
C17_OverBudgetEviction ==
    /\ (CompactRan /\ get_total_tokens(last.appended) > token_threshold)
       => LET n == Len(last.appended)
              most == n - Min(keep_top, n)
          IN  \E k \in 0..most :
                /\ Window = Evicted(last.appended, k)
                /\ \/ get_total_tokens(Window) <= token_threshold
                   \/ k = most
                /\ \A j \in 0..(k - 1) :
                     get_total_tokens(Evicted(last.appended, j))
                         > token_threshold
    /\ (caller = "B" /\ calls = Len(ScenarioB.script))
       => /\ Window = <<ScenarioB.script[1]>>
          /\ get_total_tokens(Window) = 3

\* scenario B has run to its end: the fourth add evicted the fourth message
C17_Witness ==
    /\ caller = "B"
    /\ calls = Len(ScenarioB.script)
    /\ last.op = "add"
    /\ last.result = "ok"
    /\ get_total_tokens(last.appended) > token_threshold
    /\ Len(last.appended) = 2
    /\ Len(Window) = 1

\* a can be obtained from b by deleting messages
RECURSIVE IsSubsequence(_, _)
IsSubsequence(a, b) ==
    IF a = << >> THEN TRUE
    ELSE IF b = << >> THEN FALSE
    ELSE IF a[1] = b[1] THEN IsSubsequence(Tail(a), Tail(b))
    ELSE IsSubsequence(a, Tail(b))

\* C18: every compaction preserves message order: the window after
\* compact(), called directly or from add(), is a subsequence of the window
\* compact() was entered with, in the under-budget and the over-budget
\* branch alike.
C18_OrderPreserved ==
    last.op \in {"add", "compact"} => IsSubsequence(Window, last.appended)

\* an under-budget compaction kept a top and a bottom message and dropped
\* one between them
C18_Witness ==
    /\ CompactRan
    /\ get_total_tokens(last.appended) <= token_threshold
    /\ keep_top = 1
    /\ keep_bottom = 1
    /\ Len(last.appended) = 3
    /\ Window = <<last.appended[1], last.appended[3]>>
    /\ last.appended[1] # last.appended[3]

\* C19: within a turn, the function call that is shown for confirmation and
\* executed is the one carried by the most recent reply of the remote
\* service, also when that reply answers a function result.
C19_LatestRequestExecuted ==
    /\ pc \in {"ConfirmingTool", "ExecutingTool"}
       => function_call = response[1].function_call
    /\ (step.name = "ExecuteTool" /\ Len(invoked) > step.invoked)
       => invoked[Len(invoked)] = response[1].function_call[1]

\* C20: whenever add() fails, in its assertions or in compact() under the
\* summarize method, the window and the archive are what they were before
\* the call.
C20_FailedAddLeavesNoTrace ==
    (last.op = "add" /\ last.result # "ok")
    => /\ Window = last.before
       /\ Archive = last.archive

\* the results an add() call of the loop can have
AddResults == {"ok", "AssertionError", "NotImplementedError"}

\* the last step called add() once, with message m, on the history the
\* step started with
AddedOnce(m) ==
    /\ last.op = "add"
    /\ last.msg = m
    /\ last.before = step.window
    /\ last.archive = step.archive
    /\ last.result = step.outcome

\* C21: the loop calls add() only with a user message, once per user input
\* that is not exit, and with a function message, once per function whose
\* result handle_function returned; a step that receives a reply of the
\* remote service, asks for confirmation or ends the loop leaves the history
\* as it was, so no message the loop added has the role assistant.
C21_LoopAddsUserAndFunctionOnly ==
    /\ last.op \in {"init", "add"}
    /\ last.op = "add" => last.msg.role \in {"user", "function"}
    /\ (step.name = "UserInput" /\ step.outcome # "exit")
       => AddedOnce([role |-> "user", content |-> step.input])
    /\ (step.name = "ExecuteTool" /\ step.outcome \in AddResults)
       => /\ AddedOnce(tool_msg[1])
          /\ tool_msg[1].role = "function"
          /\ Len(invoked) = step.invoked + 1
    /\ \/ step.name \in {"Transport", "Confirm", "InputEnds"}
       \/ step.name = "UserInput" /\ step.outcome = "exit"
       \/ step.name = "ExecuteTool" /\ step.outcome \notin AddResults
       => Window = step.window /\ Archive = step.archive
    /\ \A i \in 1..Len(added) : added[i].role \in {"user", "function"}
    /\ \A i \in 1..Len(Archive) : Archive[i].role # "assistant"
    /\ Len(added) <= turns + Len(invoked)

\* a turn added a user message and a function message, and the reply that
\* closed the cycle was received without being added
C21_Witness ==
    /\ step.name = "Transport"
    /\ step.outcome = "stop"
    /\ site = "followup"
    /\ Len(added) = 2
    /\ added[1].role = "user"
    /\ added[2].role = "function"
    /\ Archive = step.archive

====
